---- MODULE Spec2Model ----
(***************************************************************************)
(* Model of the NUT UPS poll driver (src/drivers/ups/device.js) and of the *)
(* status translator (src/lib/Utils.js).                                   *)
(*                                                                         *)
(* JavaScript values are tagged records:                                   *)
(*   [t |-> "undef"], [t |-> "null"], [t |-> "bool", v |-> BOOLEAN],       *)
(*   [t |-> "nan"], [t |-> "num", m |-> Int, e |-> Nat]  (m * 10^-e),      *)
(*   [t |-> "str", v |-> sequence of string pieces],                       *)
(*   [t |-> "obj", keys |-> sequence of keys, f |-> function on the keys]. *)
(* A string is the concatenation of its pieces; raw protocol strings are   *)
(* sequences of one-character pieces.                                      *)
(***************************************************************************)
EXTENDS Integers, Sequences, FiniteSets, Bags, TLC

\* ------------------------------------------------------------------ bounds
MaxStatusLen == 3
MaxOptLen == 2
MaxTicks == 2
MaxTimers == 2

MaxTokens == 2

MaxNumLen == 2

\* ------------------------------------------------------- JavaScript values
Undefined == [t |-> "undef"]
Null == [t |-> "null"]
NaN == [t |-> "nan"]
Bool(b) == [t |-> "bool", v |-> b]
Str(s) == [t |-> "str", v |-> s]

RECURSIVE StripZeros(_, _)
StripZeros(m, e) ==
  IF e > 0 /\ m % 10 = 0 THEN StripZeros(m \div 10, e - 1) ELSE <<m, e>>

Num(m, e) ==
  LET n == StripZeros(m, e) IN [t |-> "num", m |-> n[1], e |-> n[2]]

\* obj[key]: a missing key reads as undefined
Get(obj, key) == IF key \in DOMAIN obj.f THEN obj.f[key] ELSE Undefined

\* value == null / value != null (loose comparison: null and undefined)
LooseNull(value) == value.t \in {"undef", "null"}

\* ------------------------------------------------------------ Utils.blank
IsSpace(c) == c = " "

AllSpace(s) == \A i \in 1..Len(s) : IsSpace(s[i])

blank(value) ==
  CASE value.t = "undef" -> TRUE
    [] value.t = "null" -> TRUE
    [] value.t = "str" -> AllSpace(value.v)
    [] value.t \in {"bool", "num", "nan"} -> FALSE
    [] value.t = "obj" -> Len(value.keys) = 0
    [] OTHER -> FALSE

filled(value) == ~blank(value)

\* ----------------------------------------------------- parseInt/parseFloat
DigitVal ==
  [c \in {"0", "1", "2", "3", "4", "5", "6", "7", "8", "9"} |->
     CASE c = "0" -> 0 [] c = "1" -> 1 [] c = "2" -> 2 [] c = "3" -> 3
       [] c = "4" -> 4 [] c = "5" -> 5 [] c = "6" -> 6 [] c = "7" -> 7
       [] c = "8" -> 8 [] c = "9" -> 9]

IsDigit(c) == c \in DOMAIN DigitVal

RECURSIVE SkipSpace(_)
SkipSpace(s) ==
  IF Len(s) > 0 /\ IsSpace(s[1]) THEN SkipSpace(Tail(s)) ELSE s

\* length of the longest prefix of s made of digits
RECURSIVE DigitPrefix(_)
DigitPrefix(s) ==
  IF Len(s) > 0 /\ IsDigit(s[1]) THEN 1 + DigitPrefix(Tail(s)) ELSE 0

RECURSIVE DigitsValue(_, _)
DigitsValue(s, acc) ==
  IF Len(s) = 0 THEN acc ELSE DigitsValue(Tail(s), acc * 10 + DigitVal[s[1]])

\* sign and the rest of a string that starts a number
SignOf(s) == IF Len(s) > 0 /\ s[1] = "-" THEN -1 ELSE 1

Unsigned(s) == IF Len(s) > 0 /\ s[1] \in {"-", "+"} THEN Tail(s) ELSE s

\* parseInt(str, 10)
parseInt(value) ==
  LET s == Unsigned(SkipSpace(value.v))
      n == DigitPrefix(s)
  IN IF n = 0 THEN NaN
     ELSE Num(SignOf(SkipSpace(value.v)) * DigitsValue(SubSeq(s, 1, n), 0), 0)

\* parseFloat(str), decimal literals without exponent
parseFloat(value) ==
  LET s == Unsigned(SkipSpace(value.v))
      n == DigitPrefix(s)
      rest == SubSeq(s, n + 1, Len(s))
      hasDot == Len(rest) > 0 /\ rest[1] = "."
      k == IF hasDot THEN DigitPrefix(Tail(rest)) ELSE 0
      digits == SubSeq(s, 1, n) \o (IF hasDot THEN SubSeq(Tail(rest), 1, k) ELSE <<>>)
  IN IF n + k = 0 THEN NaN
     ELSE Num(SignOf(SkipSpace(value.v)) * DigitsValue(digits, 0), k)

\* --------------------------------------------------- String.prototype ops
startsWith(s, p) == Len(s) >= Len(p) /\ SubSeq(s, 1, Len(p)) = p

\* s.split(" "): the pieces between single spaces, empty pieces included
RECURSIVE SplitFrom(_, _)
SplitFrom(s, cur) ==
  IF Len(s) = 0 THEN <<cur>>
  ELSE IF s[1] = " " THEN <<cur>> \o SplitFrom(Tail(s), <<>>)
  ELSE SplitFrom(Tail(s), Append(cur, s[1]))

split(s) == SplitFrom(s, <<>>)

\* ------------------------------------------------------------ STATE_TYPES
STATE_TYPES ==
  (<<"O", "L">> :> "Online") @@
  (<<"O", "B">> :> "On Battery") @@
  (<<"L", "B">> :> "Low Battery") @@
  (<<"H", "B">> :> "High Battery") @@
  (<<"R", "B">> :> "Battery Needs Replaced") @@
  (<<"C", "H", "R", "G">> :> "Battery Charging") @@
  (<<"D", "I", "S", "C", "H", "R", "G">> :> "Battery Discharging") @@
  (<<"B", "Y", "P", "A", "S", "S">> :> "Bypass Active") @@
  (<<"C", "A", "L">> :> "Runtime Calibration") @@
  (<<"O", "F", "F">> :> "Offline") @@
  (<<"O", "V", "E", "R">> :> "Overloaded") @@
  (<<"T", "R", "I", "M">> :> "Trimming Voltage") @@
  (<<"B", "O", "O", "S", "T">> :> "Boosting Voltage") @@
  (<<"F", "S", "D">> :> "Forced Shutdown") @@
  (<<"A", "L", "A", "R", "M">> :> "Alarm")

\* `${STATE_TYPES[word]}`: an unknown word renders as "undefined"
Label(word) == IF word \in DOMAIN STATE_TYPES THEN STATE_TYPES[word] ELSE "undefined"

\* readableStatus after the forEach: every label followed by ", "
RECURSIVE Labels(_)
Labels(words) ==
  IF Len(words) = 0 THEN <<>>
  ELSE <<Label(words[1]), ", ">> \o Labels(Tail(words))

\* the replace left out: the text keeps its final ", "
StripTrailingComma_None(pieces) == pieces

\* readableStatus.replace(/,\s*$/, ""): drops a final "," + whitespace piece
StripTrailingComma(pieces) ==
  IF Len(pieces) > 0 /\ pieces[Len(pieces)] \in {",", ", "}
  THEN SubSeq(pieces, 1, Len(pieces) - 1)
  ELSE pieces

readableStatus(status) == StripTrailingComma(Labels(split(status)))

\* --------------------------------------------------------- parseUPSStatus
\* A capability name is the sequence of its dot-separated segments:
\* <<"measure_voltage", "input">> is "measure_voltage.input".
RawKeys ==
  {"ups.model", "battery.charge", "battery.runtime", "battery.temperature",
   "ups.serial", "input.voltage", "output.voltage", "ups.status", "ups.load",
   "battery.voltage"}

notCapabilities == {"name", "id"}

Obj(keys, f) == [t |-> "obj", keys |-> keys, f |-> f]

PassThrough(raw) == IF filled(raw) THEN raw ELSE Null

IntField(raw) == IF filled(raw) THEN parseInt(raw) ELSE Null

FloatField(raw) == IF filled(raw) THEN parseFloat(raw) ELSE Null

\* result.values as first assigned: the fixed fields in declaration order
DeclaredKeys ==
  <<"name", "measure_battery", "measure_battery_runtime", "measure_temperature",
    "id", "measure_voltage", "status", "alarm_status">>

DeclaredValues(body) ==
  [k \in {DeclaredKeys[i] : i \in 1..Len(DeclaredKeys)} |->
     CASE k = "name" -> PassThrough(body["ups.model"])
       [] k = "measure_battery" -> IntField(body["battery.charge"])
       [] k = "measure_battery_runtime" -> IntField(body["battery.runtime"])
       [] k = "measure_temperature" -> FloatField(body["battery.temperature"])
       [] k = "id" -> PassThrough(body["ups.serial"])
       [] k = "measure_voltage" ->
            Obj(<<"input", "output">>,
                [sub \in {"input", "output"} |->
                   IF sub = "input" THEN IntField(body["input.voltage"])
                   ELSE IntField(body["output.voltage"])])
       [] k = "status" -> PassThrough(body["ups.status"])
       [] k = "alarm_status" -> Bool(FALSE)]

\* the optional keys tested against undefined instead of with filled
OptionalKeys_NotUndefined(body) ==
  (IF body["ups.load"] # Undefined THEN <<"measure_load">> ELSE <<>>) \o
  (IF body["battery.voltage"] # Undefined THEN <<"measure_battery_voltage">> ELSE <<>>)

\* the keys added after the literal, in the order the code adds them
OptionalKeys(body) ==
  (IF filled(body["ups.load"]) THEN <<"measure_load">> ELSE <<>>) \o
  (IF filled(body["battery.voltage"]) THEN <<"measure_battery_voltage">> ELSE <<>>)

\* the alarm derived from the first letter of the status only
AlarmStatus_FirstLetter(status) ==
  IF filled(status) THEN Bool(~startsWith(status.v, <<"O">>)) ELSE Bool(FALSE)

\* result.values.alarm_status at the end of the function
AlarmStatus(status) ==
  IF filled(status) THEN Bool(~startsWith(status.v, <<"O", "L">>)) ELSE Bool(FALSE)

\* result.values.status at the end of the function
ReadableStatus(status) ==
  IF filled(status) THEN Str(readableStatus(status.v)) ELSE status

Values(body) ==
  LET declared == DeclaredValues(body)
      keys == DeclaredKeys \o OptionalKeys(body)
  IN Obj(keys,
         [k \in {keys[i] : i \in 1..Len(keys)} |->
            CASE k = "measure_load" -> parseInt(body["ups.load"])
              [] k = "measure_battery_voltage" -> parseFloat(body["battery.voltage"])
              [] k = "status" -> ReadableStatus(declared["status"])
              [] k = "alarm_status" -> AlarmStatus(declared["status"])
              [] OTHER -> declared[k]])

\* the entries one field of values pushes to result.capabilities
RECURSIVE SubCapabilities(_, _, _)
SubCapabilities(key, value, subKeys) ==
  IF Len(subKeys) = 0 THEN <<>>
  ELSE (IF filled(value.f[subKeys[1]]) THEN <<(<<key, subKeys[1]>>)>> ELSE <<>>)
       \o SubCapabilities(key, value, Tail(subKeys))

\* the field tested for truthiness instead of with filled
KeyCapabilities_Truthy(key, value) ==
  IF /\ value.t \notin {"undef", "null", "nan"}
     /\ value # Bool(FALSE) /\ value # Num(0, 0) /\ value # Str(<<>>)
     /\ key \notin notCapabilities
  THEN IF value.t = "obj" THEN SubCapabilities(key, value, value.keys)
       ELSE <<(<<key>>)>>
  ELSE <<>>

KeyCapabilities(key, value) ==
  IF filled(value) /\ key \notin notCapabilities
  THEN IF value.t = "obj" THEN SubCapabilities(key, value, value.keys)
       ELSE <<(<<key>>)>>
  ELSE <<>>

RECURSIVE CapabilityList(_, _)
CapabilityList(values, keys) ==
  IF Len(keys) = 0 THEN <<>>
  ELSE KeyCapabilities(keys[1], values.f[keys[1]]) \o CapabilityList(values, Tail(keys))

parseUPSStatus(body) ==
  LET values == Values(body)
  IN [values |-> values, capabilities |-> CapabilityList(values, values.keys)]

\* ---------------------------------------------------------------- inputs
\* all strings over an alphabet, of length 0..n
RECURSIVE StringsUpTo(_, _)
StringsUpTo(chars, n) ==
  IF n = 0 THEN {<<>>}
  ELSE LET shorter == StringsUpTo(chars, n - 1)
       IN shorter \cup {Append(s, c) : s \in shorter, c \in chars}

StatusChars == {"O", "L", "B", " "}
OptChars == {"7", " ", "x"}

StatusInputs == {Undefined} \cup {Str(s) : s \in StringsUpTo(StatusChars, MaxStatusLen)}
OptInputs == {Undefined} \cup {Str(s) : s \in StringsUpTo(OptChars, MaxOptLen)}

\* a daemon that reports nothing and one that reports every fixed variable
EmptyBody == [k \in RawKeys |-> Undefined]

FullBody ==
  [k \in RawKeys |->
     CASE k = "ups.model" -> Str(<<"E", "c", "o">>)
       [] k = "battery.charge" -> Str(<<"1", "0", "0">>)
       [] k = "battery.runtime" -> Str(<<"9", "0">>)
       [] k = "battery.temperature" -> Str(<<"2", "5", ".", "5">>)
       [] k = "ups.serial" -> Str(<<"S", "1">>)
       [] k = "input.voltage" -> Str(<<"2", "3", "0", ".", "4">>)
       [] k = "output.voltage" -> Str(<<"2", "2", "9">>)
       [] OTHER -> Undefined]

BaseBodies == {EmptyBody, FullBody}

WithRaw(body, status, load, voltage) ==
  [k \in RawKeys |->
     CASE k = "ups.status" -> status
       [] k = "ups.load" -> load
       [] k = "battery.voltage" -> voltage
       [] OTHER -> body[k]]

\* ------------------------------------------------------------------ state
VARIABLES
  phase,       \* "constructed", "initialized" (after onInit), "deleted" (after onDeleted)
  settings,    \* the host's device settings: interval (seconds) and ip
  nut,         \* this.nut: Null or the one client object made by initNut
  interval,    \* this.interval: a timer handle, 0 while undefined
  timers,      \* the timers made by setInterval, handle = index
  available,   \* what setAvailable / setUnavailable last set
  ticks,       \* the getDeviceData calls in flight, a bag of call records
  ended,       \* the record of the getDeviceData call that ended last
  liveCaps,    \* the capabilities of the live device (getCapabilities)
  capValues,   \* the capability values of the live device
  store,       \* the device store: first_run and capabilities
  lastRun,     \* the calls made by the last setCapabilities run
  raw,         \* SpecTranslate: the raw variable map given to parseUPSStatus
  translated   \* SpecTranslate: parseUPSStatus(raw), Undefined before the call

vars ==
  <<phase, settings, nut, interval, timers, available, ticks, ended,
    liveCaps, capValues, store, lastRun, raw, translated>>

driverVars ==
  <<phase, settings, nut, interval, timers, available, ticks, ended,
    liveCaps, capValues, store, lastRun>>

Arr(s) == [t |-> "arr", v |-> s]

Range(s) == {s[i] : i \in 1..Len(s)}

\* JavaScript truthiness of the values the store holds
Truthy(value) ==
  CASE value.t \in {"undef", "null", "nan"} -> FALSE
    [] value.t = "bool" -> value.v
    [] OTHER -> TRUE

\* ----------------------------------------------------------------- timers
\* setInterval(callback, period): a new active timer, its handle is returned
setInterval(ts, period) == Append(ts, [period |-> period, active |-> TRUE])

\* a clearInterval that cancels nothing
clearInterval_Ignored(ts, handle) == ts

\* clearInterval(handle): undefined or unknown handles are ignored
clearInterval(ts, handle) ==
  IF handle \in 1..Len(ts) THEN [ts EXCEPT ![handle].active = FALSE] ELSE ts

ActiveTimers == {h \in 1..Len(timers) : timers[h].active}

\* ------------------------------------------------------- setCapabilities
\* addCapability, removeCapability and setCapabilityValue are not awaited;
\* the host is taken to apply them when they are called, so hasCapability
\* and getCapabilities see the calls made earlier in the same run.
\* step 1: the optional capabilities the status holds and the device lacks
DynamicAdds(status, live) ==
  {c \in {<<"measure_load">>, <<"measure_battery_voltage">>} :
     ~LooseNull(Get(status.values, c[1])) /\ c \notin live}

\* Array.from(new Set(list)): first occurrences, in order
RECURSIVE Dedupe(_, _)
Dedupe(list, seen) ==
  IF Len(list) = 0 THEN <<>>
  ELSE IF list[1] \in seen THEN Dedupe(Tail(list), seen)
  ELSE <<list[1]>> \o Dedupe(Tail(list), seen \cup {list[1]})

\* the merge of the stored capabilities with status.capabilities
MergeCapabilities(deviceCapabilities, status) ==
  IF ~Truthy(deviceCapabilities) THEN status.capabilities
  ELSE Dedupe(deviceCapabilities.v \o status.capabilities, {})

\* the guard without its truth test: any first_run that is set
IsFirstRun_NotNull(firstRun) == ~LooseNull(firstRun)

\* an unset first_run taken for a first run
IsFirstRun_UnsetCounts(firstRun) == LooseNull(firstRun) \/ Truthy(firstRun)

\* the first-run pass runs for a first_run that is set and true
IsFirstRun(firstRun) == ~LooseNull(firstRun) /\ Truthy(firstRun)

\* the includes test without its negation
PruneRemoves_Inverted(live, deviceCapabilities) ==
  {c \in live : c \in Range(deviceCapabilities.v)}

\* the capabilities the first-run pass removes
PruneRemoves(live, deviceCapabilities) ==
  {c \in live : c \notin Range(deviceCapabilities.v)}

\* the name a list entry is written under, and the value written
WrittenName(capability) ==
  IF Len(capability) > 1 THEN <<capability[1], capability[Len(capability)]>>
  ELSE capability

ResolveThrows(capability, status) ==
  Len(capability) > 1 /\ LooseNull(Get(status.values, capability[1]))

ResolveValue(capability, status) ==
  IF Len(capability) > 1
  THEN LET parent == Get(status.values, capability[1])
       IN IF parent.t = "obj" THEN Get(parent, capability[Len(capability)])
          ELSE Undefined
  ELSE Get(status.values, capability[1])

\* updateValue: the host stores the value of a capability the device has,
\* and rejects the write otherwise (the rejection is logged by this.error)
updateValue(values, live, capability, value) ==
  IF capability \in live THEN [values EXCEPT ![capability] = value] ELSE values

\* the write awaited with no catch: a rejected write throws out of the loop
RECURSIVE WriteAll_AbortOnReject(_, _, _, _, _)
WriteAll_AbortOnReject(list, status, live, values, writes) ==
  IF Len(list) = 0 THEN [values |-> values, writes |-> writes, threw |-> FALSE]
  ELSE IF ResolveThrows(list[1], status)
  THEN [values |-> values, writes |-> writes, threw |-> TRUE]
  ELSE LET name == WrittenName(list[1])
           value == ResolveValue(list[1], status)
       IN IF name \notin live
          THEN [values |-> values, writes |-> Append(writes, <<name, value>>),
                threw |-> TRUE]
          ELSE WriteAll_AbortOnReject(Tail(list), status, live,
                                      updateValue(values, live, name, value),
                                      Append(writes, <<name, value>>))

\* capabilityList.forEach: the writes made until an entry throws
RECURSIVE WriteAll(_, _, _, _, _)
WriteAll(list, status, live, values, writes) ==
  IF Len(list) = 0 THEN [values |-> values, writes |-> writes, threw |-> FALSE]
  ELSE IF ResolveThrows(list[1], status)
  THEN [values |-> values, writes |-> writes, threw |-> TRUE]
  ELSE LET name == WrittenName(list[1])
           value == ResolveValue(list[1], status)
       IN WriteAll(Tail(list), status, live,
                   updateValue(values, live, name, value),
                   Append(writes, <<name, value>>))

\* setCapabilities(status) on a device with capabilities live, capability
\* values values and store st: the state it leaves and the calls it made
setCapabilities(status, live, values, st) ==
  LET adds == DynamicAdds(status, live)
      live1 == live \cup adds
      firstRun == st.first_run
      deviceCapabilities == st.capabilities
      pruning == IsFirstRun(firstRun)
      pruneThrows == pruning /\ LooseNull(deviceCapabilities) /\ live1 # {}
      removes ==
        IF pruning /\ ~LooseNull(deviceCapabilities)
        THEN PruneRemoves(live1, deviceCapabilities) ELSE {}
      live2 == live1 \ removes
      st2 == IF pruning /\ ~pruneThrows THEN [st EXCEPT !.first_run = Bool(FALSE)] ELSE st
      values2 == [c \in live2 |-> IF c \in live THEN values[c] ELSE Null]
      capabilityList == MergeCapabilities(deviceCapabilities, status)
      written == WriteAll(capabilityList, status, live2, values2, <<>>)
  IN IF pruneThrows
     THEN [live |-> live1, values |-> [c \in live1 |-> IF c \in live THEN values[c] ELSE Null],
           store |-> st, adds |-> adds, removes |-> {}, writes |-> <<>>,
           threw |-> TRUE]
     ELSE [live |-> live2, values |-> written.values, store |-> st2,
           adds |-> adds, removes |-> removes, writes |-> written.writes,
           threw |-> written.threw]

\* ---------------------------------------------------------- driver inputs
Intervals == {30, 60}
Ips == {"10.0.0.1", "10.0.0.2"}

SettingsValues == [interval : Intervals, ip : Ips]

\* what the daemon may answer to GetUPSVars: every fixed variable, the
\* optional ones as well, or the status alone
OnlineBody == WithRaw(FullBody, Str(<<"O", "L">>), Undefined, Undefined)
LoadBody == WithRaw(FullBody, Str(<<"O", "B">>), Str(<<"7">>), Str(<<"1", "3", ".", "5">>))

SparseBody == WithRaw(EmptyBody, Str(<<"O", "L">>), Undefined, Undefined)

TickBodies == {OnlineBody, LoadBody, SparseBody}

Vars(body) == [t |-> "vars", vars |-> body]

Responses == {Undefined} \cup {Vars(b) : b \in TickBodies}

\* parseUPSStatus(res) for the answers above
StatusOf == [b \in TickBodies |-> parseUPSStatus(b)]

\* the capabilities and store a device may have been paired with
TemplateCapabilities ==
  {<<"measure_battery">>, <<"measure_battery_runtime">>, <<"measure_temperature">>,
   <<"measure_voltage", "input">>, <<"measure_voltage", "output">>,
   <<"status">>, <<"alarm_status">>, <<"foo">>}

InitialLive == {TemplateCapabilities}

InitialStores ==
  [first_run : {Undefined, Bool(TRUE), Bool(FALSE)},
   capabilities : {Null, Arr(<<(<<"measure_battery">>), (<<"status">>)>>)}]

NoRun ==
  [ran |-> FALSE, res |-> Undefined, adds |-> {}, removes |-> {},
   writes |-> <<>>, threw |-> FALSE]

\* a getDeviceData call: where it stands, its close() calls, whether it
\* went through catch, and whether its promise rejected
IdleTick == [pc |-> "idle", closes |-> 0, failed |-> FALSE, propagated |-> FALSE]

InFlight == BagToSet(ticks)

One(tick) == SetToBag({tick})

\* --------------------------------------------------------- getDeviceData
\* the client object: connect opens its connection, close releases it
NutStarted(n) == [n EXCEPT !.open = TRUE]

NutClose(n) == [n EXCEPT !.open = FALSE]

\* close() at the end of try instead of in finally
TickExit_CloseInTry(tick, failed) ==
  [pc |-> "done", closes |-> tick.closes + (IF failed = "none" THEN 1 ELSE 0),
   failed |-> failed # "none", propagated |-> FALSE]

\* catch and finally: the record of a call that ends, failed is the step
\* that threw or "none"; the returned promise resolves either way
TickExit(tick, failed) ==
  [pc |-> "done", closes |-> tick.closes + 1, failed |-> failed # "none",
   propagated |-> FALSE]

\* setAvailable() moved to finally: every call marks the device available
ExitAvailability_AlwaysAvailable(failed) == [state |-> "available", reason |-> ""]

\* setAvailable() after a full reading, setUnavailable(reason) in catch
ExitAvailability(failed) ==
  IF failed = "none" THEN [state |-> "available", reason |-> ""]
  ELSE [state |-> "unavailable", reason |-> "Connection error: " \o failed]

\* an active timer fires: getDeviceData runs up to its first await, nut.start()
TickStart ==
  /\ ActiveTimers # {}
  /\ BagCardinality(ticks) < MaxTicks
  /\ ticks' = ticks (+) One([IdleTick EXCEPT !.pc = "start"])
  /\ UNCHANGED <<phase, settings, nut, interval, timers, available, ended,
                 liveCaps, capValues, store, lastRun, raw, translated>>

NextStep(pc) ==
  CASE pc = "start" -> "username"
    [] pc = "username" -> "password"
    [] pc = "password" -> "fetch"

\* start, SetUsername or SetPassword resolves and the next call is made
TickResolve(tick) ==
  /\ tick.pc \in {"start", "username", "password"}
  /\ ticks' = (ticks (-) One(tick)) (+) One([tick EXCEPT !.pc = NextStep(@)])
  /\ nut' = IF tick.pc = "start" THEN NutStarted(nut) ELSE nut
  /\ UNCHANGED <<phase, settings, interval, timers, available, ended, liveCaps,
                 capValues, store, lastRun, raw, translated>>

FailedStep(pc) ==
  CASE pc = "start" -> "connect"
    [] pc \in {"username", "password"} -> "authenticate"
    [] pc = "fetch" -> "fetch"

\* the awaited call rejects: catch, then finally
TickReject(tick) ==
  /\ tick.pc \in {"start", "username", "password", "fetch"}
  /\ ticks' = ticks (-) One(tick)
  /\ ended' = TickExit(tick, FailedStep(tick.pc))
  /\ available' = ExitAvailability(FailedStep(tick.pc))
  /\ nut' = NutClose(nut)
  /\ UNCHANGED <<phase, settings, interval, timers, liveCaps, capValues,
                 store, lastRun, raw, translated>>

\* GetUPSVars resolves with res: translate, reconcile, mark, then finally
TickFetched(tick, res) ==
  /\ tick.pc = "fetch"
  /\ ticks' = ticks (-) One(tick)
  /\ IF res.t = "undef"
     THEN /\ ended' = TickExit(tick, "translate")
          /\ available' = ExitAvailability("translate")
          /\ UNCHANGED <<liveCaps, capValues, store, lastRun>>
     ELSE \E run \in {setCapabilities(StatusOf[res.vars], liveCaps, capValues, store)} :
          LET failed == IF run.threw THEN "reconcile" ELSE "none"
          IN /\ liveCaps' = run.live
             /\ capValues' = run.values
             /\ store' = run.store
             /\ lastRun' = [ran |-> TRUE, res |-> res, adds |-> run.adds,
                            removes |-> run.removes, writes |-> run.writes,
                            threw |-> run.threw]
             /\ ended' = TickExit(tick, failed)
             /\ available' = ExitAvailability(failed)
  /\ nut' = NutClose(nut)
  /\ UNCHANGED <<phase, settings, interval, timers, raw, translated>>

\* -------------------------------------------------------- lifecycle hooks
\* The host calls onInit once, then onSettings any number of times, then
\* onDeleted; none of the hooks awaits, so each runs as one step.
\* initNut: one client for the host and port of the settings
initNut == [host |-> settings.ip, open |-> FALSE]

onInit ==
  /\ phase = "constructed"
  /\ phase' = "initialized"
  /\ available' = [state |-> "unavailable", reason |-> "Initializing..."]
  /\ nut' = initNut
  /\ timers' = setInterval(timers, settings.interval * 1000)
  /\ interval' = Len(timers')
  /\ UNCHANGED <<settings, ticks, ended, liveCaps, capValues, store,
                 lastRun, raw, translated>>

\* a setUpdateInterval that does not assign this.interval
setUpdateInterval_HandleNotStored(ts, handle, newInterval) ==
  [timers |-> setInterval(ts, newInterval * 1000), interval |-> handle]

\* setUpdateInterval(newInterval) on the timers ts: the new timers and handle
setUpdateInterval(ts, handle, newInterval) ==
  LET started == setInterval(ts, newInterval * 1000)
  IN [timers |-> started, interval |-> Len(started)]

\* the user saves newSettings; the host stores them once the hook returns
onSettings(newSettings) ==
  /\ phase = "initialized"
  /\ newSettings # settings
  /\ newSettings.interval # settings.interval => Len(timers) < MaxTimers
  /\ settings' = newSettings
  /\ IF settings.interval # newSettings.interval
     THEN LET set == setUpdateInterval(clearInterval(timers, interval), interval,
                                       newSettings.interval)
          IN /\ timers' = set.timers
             /\ interval' = set.interval
     ELSE UNCHANGED <<timers, interval>>
  /\ UNCHANGED <<phase, nut, available, ticks, ended, liveCaps, capValues,
                 store, lastRun, raw, translated>>

onDeleted ==
  /\ phase = "initialized"
  /\ phase' = "deleted"
  /\ timers' = clearInterval(timers, interval)
  /\ UNCHANGED <<settings, nut, interval, available, ticks, ended, liveCaps,
                 capValues, store, lastRun, raw, translated>>

\* ---------------------------------------------------------- specification
Init ==
  /\ phase = "constructed"
  /\ settings = [interval |-> 60, ip |-> "10.0.0.1"]
  /\ nut = Null
  /\ interval = 0
  /\ timers = <<>>
  /\ available = [state |-> "unset", reason |-> ""]
  /\ ticks = EmptyBag
  /\ ended = IdleTick
  /\ liveCaps \in InitialLive
  /\ capValues = [c \in liveCaps |-> Null]
  /\ store \in InitialStores
  /\ lastRun = NoRun
  /\ raw = EmptyBody
  /\ translated = Undefined

Next ==
  \/ onInit
  \/ \E newSettings \in SettingsValues : onSettings(newSettings)
  \/ onDeleted
  \/ TickStart
  \/ \E tick \in InFlight : TickResolve(tick)
  \/ \E tick \in InFlight : TickReject(tick)
  \/ \E tick \in InFlight, res \in Responses : TickFetched(tick, res)

Spec == Init /\ [][Next]_vars

\* the translator alone: a raw map is drawn, parseUPSStatus is applied
InitTranslate ==
  /\ phase = "constructed"
  /\ settings = [interval |-> 60, ip |-> "10.0.0.1"]
  /\ nut = Null
  /\ interval = 0
  /\ timers = <<>>
  /\ available = [state |-> "unset", reason |-> ""]
  /\ ticks = EmptyBag
  /\ ended = IdleTick
  /\ liveCaps = {}
  /\ capValues = [c \in liveCaps |-> Null]
  /\ store = [first_run |-> Undefined, capabilities |-> Null]
  /\ lastRun = NoRun
  /\ \E base \in BaseBodies, status \in StatusInputs, load \in OptInputs,
        voltage \in OptInputs : raw = WithRaw(base, status, load, voltage)
  /\ translated = Undefined

Translate ==
  /\ translated = Undefined
  /\ translated' = parseUPSStatus(raw)
  /\ UNCHANGED <<driverVars, raw>>

NextTranslate == Translate

SpecTranslate == InitTranslate /\ [][NextTranslate]_vars

\* ------------------------------------------------ status strings of flags
\* the sequences of one to MaxTokens flags the daemon can report
TokenSeqs ==
  UNION {[1..n -> DOMAIN STATE_TYPES] : n \in 1..MaxTokens}

\* the flags written with one space between them
RECURSIVE JoinTokens(_)
JoinTokens(tokens) ==
  IF Len(tokens) = 1 THEN tokens[1]
  ELSE tokens[1] \o <<" ">> \o JoinTokens(Tail(tokens))

InitStatus ==
  /\ phase = "constructed"
  /\ settings = [interval |-> 60, ip |-> "10.0.0.1"]
  /\ nut = Null
  /\ interval = 0
  /\ timers = <<>>
  /\ available = [state |-> "unset", reason |-> ""]
  /\ ticks = EmptyBag
  /\ ended = IdleTick
  /\ liveCaps = {}
  /\ capValues = [c \in liveCaps |-> Null]
  /\ store = [first_run |-> Undefined, capabilities |-> Null]
  /\ lastRun = NoRun
  /\ \E base \in BaseBodies, tokens \in TokenSeqs :
        raw = WithRaw(base, Str(JoinTokens(tokens)), Undefined, Undefined)
  /\ translated = Undefined

TranslateStatus ==
  /\ translated = Undefined
  /\ translated' = parseUPSStatus(raw)
  /\ UNCHANGED <<driverVars, raw>>

NextStatus == TranslateStatus

SpecStatus == InitStatus /\ [][NextStatus]_vars

\* -------------------------------------------------- numeric raw values
\* the raw strings of the numeric variables: digits, a point, a letter, a
\* space, in every order up to MaxNumLen characters, or no value
NumChars == {"0", "7", ".", "x", " "}

NumInputs == {Undefined} \cup {Str(s) : s \in StringsUpTo(NumChars, MaxNumLen)}

FieldStatuses ==
  {Undefined, Str(<<"O", "L">>), Str(<<"O", "B", " ", "L", "B">>)}

\* a raw map with one value in half of its variables and another in the
\* other half, the two of every composite field apart
FieldBody(a, b, status) ==
  [k \in RawKeys |->
     CASE k \in {"ups.model", "battery.charge", "battery.temperature",
                 "input.voltage", "battery.voltage"} -> a
       [] k \in {"ups.serial", "battery.runtime", "output.voltage", "ups.load"} -> b
       [] OTHER -> status]

InitFields ==
  /\ phase = "constructed"
  /\ settings = [interval |-> 60, ip |-> "10.0.0.1"]
  /\ nut = Null
  /\ interval = 0
  /\ timers = <<>>
  /\ available = [state |-> "unset", reason |-> ""]
  /\ ticks = EmptyBag
  /\ ended = IdleTick
  /\ liveCaps = {}
  /\ capValues = [c \in liveCaps |-> Null]
  /\ store = [first_run |-> Undefined, capabilities |-> Null]
  /\ lastRun = NoRun
  /\ \E a \in NumInputs, b \in NumInputs, status \in FieldStatuses :
        raw = FieldBody(a, b, status)
  /\ translated = Undefined

TranslateFields ==
  /\ translated = Undefined
  /\ translated' = parseUPSStatus(raw)
  /\ UNCHANGED <<driverVars, raw>>

NextFields == TranslateFields

SpecFields == InitFields /\ [][NextFields]_vars

\* ------------------------------------------------------------- properties
\* a tick ends in this step
Exits == BagCardinality(ticks') < BagCardinality(ticks)

\* the step the tick that ends in this step was awaiting
ExitsFrom(pc) ==
  \E tick \in InFlight :
    tick.pc = pc /\ CopiesIn(tick, ticks') < CopiesIn(tick, ticks)

\* a tick starts in this step
Starts == BagCardinality(ticks') > BagCardinality(ticks)

\* setCapabilities runs in this step
Reconciles ==
  /\ ExitsFrom("fetch")
  /\ lastRun'.ran
  /\ ended'.failed => available'.reason = "Connection error: reconcile"

\* C1: a tick that has ended has called close() exactly once, whichever step
\* failed or none, and a tick in flight has not called it yet.
C1_CloseOncePerTick ==
  /\ ended.pc = "done" => ended.closes = 1
  /\ \A tick \in InFlight : tick.closes = 0

\* a tick whose fetch was rejected has ended
C1_Witness ==
  /\ ended.pc = "done" /\ ended.failed /\ ended.closes = 1
  /\ available.reason = "Connection error: fetch"

\* C2: a tick that ends after a failed step leaves the device unavailable
\* with a reason, its promise resolved and the timers as they were; the
\* device becomes available only in the step of a tick that ends with no
\* failed step, and such a tick leaves it available.
C2_FailureHandled ==
  [][/\ Exits =>
          /\ ~ended'.propagated
          /\ timers' = timers /\ interval' = interval
          /\ ended'.failed =>
               available'.state = "unavailable" /\ available'.reason # ""
          /\ ~ended'.failed =>
               available'.state = "available" /\ ExitsFrom("fetch")
     /\ (available'.state = "available" /\ available.state # "available") =>
          (Exits /\ ~ended'.failed /\ ExitsFrom("fetch"))
    ]_vars

\* a tick failed in reconcile, the timer is still active and a later tick
\* has started
C2_Witness ==
  /\ available = [state |-> "unavailable", reason |-> "Connection error: reconcile"]
  /\ ActiveTimers # {}
  /\ ended.pc = "done" /\ ended.failed
  /\ \E tick \in InFlight : tick.pc = "start"

\* C3: at most one timer is active; while the device is initialized the
\* active timer is this.interval and has the period of the interval setting;
\* a cancelled timer stays cancelled, a tick starts only while this.interval
\* is the one active timer, and a step that keeps the interval setting keeps
\* the timers.
C3_OneTimer ==
  /\ [](/\ Cardinality(ActiveTimers) <= 1
        /\ phase = "initialized" =>
             /\ ActiveTimers = {interval}
             /\ timers[interval].period = settings.interval * 1000)
  /\ [][/\ \A h \in 1..Len(timers) : ~timers[h].active => ~timers'[h].active
        /\ Starts => ActiveTimers = {interval}
        /\ (settings'.interval = settings.interval /\ phase' = phase) =>
             (timers' = timers /\ interval' = interval)
       ]_vars

\* the interval was changed from 60 to 30 and a tick started afterwards
C3_Witness ==
  /\ phase = "initialized"
  /\ settings.interval = 30
  /\ Len(timers) = 2 /\ ~timers[1].active /\ timers[2].period = 30000
  /\ \E tick \in InFlight : tick.pc = "start"

\* C4: once the device is deleted no tick starts.
C4_NoTickAfterDelete ==
  [][phase = "deleted" => ~Starts]_vars

\* the device was deleted after an interval change, with a tick in flight
C4_Witness ==
  /\ phase = "deleted"
  /\ Len(timers) = 2
  /\ InFlight # {}

\* C5: a setCapabilities run that finds first_run true and a stored
\* capability list K leaves no capability outside K on the device and
\* first_run false in the store.
C5_FirstRunPrunes ==
  [][(Reconciles /\ store.first_run = Bool(TRUE) /\ store.capabilities.t = "arr") =>
       /\ liveCaps' \subseteq Range(store.capabilities.v)
       /\ store'.first_run = Bool(FALSE)
    ]_vars

\* the first run removed foo and the capability it had just added
C5_Witness ==
  /\ lastRun.ran
  /\ <<"foo">> \in lastRun.removes
  /\ lastRun.adds \cap lastRun.removes # {}
  /\ store.first_run = Bool(FALSE)
  /\ liveCaps = {<<"measure_battery">>, <<"status">>}

\* C6: after a setCapabilities run that did not throw, the stored
\* capability list is the duplicate-free union of the list stored before and
\* status.capabilities.
C6_PersistedUnion ==
  [][(Reconciles /\ ~ended'.failed) =>
       LET before == IF store.capabilities.t = "arr"
                     THEN Range(store.capabilities.v) ELSE {}
           status == StatusOf[lastRun'.res.vars]
       IN /\ store'.capabilities.t = "arr"
          /\ Range(store'.capabilities.v) = before \cup Range(status.capabilities)
          /\ Cardinality(Range(store'.capabilities.v)) = Len(store'.capabilities.v)
    ]_vars

\* C7: a setCapabilities run that follows a run with the same status adds
\* and removes no capability and leaves the store as it was.
C7_Idempotent ==
  [][(Reconciles /\ lastRun.ran /\ ~lastRun.threw /\ lastRun'.res = lastRun.res) =>
       /\ lastRun'.adds = {}
       /\ lastRun'.removes = {}
       /\ store' = store
    ]_vars

\* C8: the connection of a tick that is authenticating or fetching is open:
\* no other tick has closed it.
C8_OwnConnection ==
  \A tick \in InFlight : tick.pc \in {"username", "password", "fetch"} => nut.open

\* the translated alarm_status and the raw status it comes from
AlarmOf(result) == result.values.f["alarm_status"]

RawStatus == raw["ups.status"]

\* C9 as stated: alarm_status is false for "OL" and true for every status
\* string that does not start with OL.
C9_AlarmAnyString ==
  translated # Undefined =>
    /\ RawStatus = Str(<<"O", "L">>) => AlarmOf(translated) = Bool(FALSE)
    /\ (RawStatus.t = "str" /\ ~startsWith(RawStatus.v, <<"O", "L">>)) =>
         AlarmOf(translated) = Bool(TRUE)

\* C9 amended: alarm_status is false for "OL" and true for every status
\* string that holds a non-space character and does not start with OL.
C9_AlarmFilledString ==
  translated # Undefined =>
    /\ RawStatus = Str(<<"O", "L">>) => AlarmOf(translated) = Bool(FALSE)
    /\ (/\ RawStatus.t = "str"
        /\ \E i \in 1..Len(RawStatus.v) : RawStatus.v[i] # " "
        /\ ~startsWith(RawStatus.v, <<"O", "L">>)) =>
         AlarmOf(translated) = Bool(TRUE)

\* "OB" was translated, with the alarm raised
C9_Witness ==
  /\ translated # Undefined
  /\ RawStatus = Str(<<"O", "B">>)
  /\ AlarmOf(translated) = Bool(TRUE)

\* a raw value that is absent, empty or made of spaces
AbsentOrBlank(value) ==
  value = Undefined \/ (value.t = "str" /\ \A i \in 1..Len(value.v) : value.v[i] = " ")

\* C10: when ups.load and battery.voltage are absent, empty or made of
\* spaces, values has no measure_load and no measure_battery_voltage key and
\* capabilities lists neither.
C10_OptionalKeysAbsent ==
  (/\ translated # Undefined
   /\ AbsentOrBlank(raw["ups.load"])
   /\ AbsentOrBlank(raw["battery.voltage"])) =>
    \A key \in {"measure_load", "measure_battery_voltage"} :
      /\ key \notin DOMAIN translated.values.f
      /\ key \notin Range(translated.values.keys)
      /\ <<key>> \notin Range(translated.capabilities)

\* a map with a space for ups.load and an empty battery.voltage was translated
C10_Witness ==
  /\ translated # Undefined
  /\ raw["ups.load"] = Str(<<" ">>)
  /\ raw["battery.voltage"] = Str(<<>>)
  /\ "measure_load" \notin DOMAIN translated.values.f
  /\ <<"measure_battery">> \in Range(translated.capabilities)

\* the pieces of a text written out as one string
RECURSIVE Concat(_)
Concat(pieces) ==
  IF Len(pieces) = 0 THEN "" ELSE pieces[1] \o Concat(Tail(pieces))

\* the labels of the flags, in order, with ", " between them
RECURSIVE JoinLabels(_)
JoinLabels(tokens) ==
  IF Len(tokens) = 1 THEN STATE_TYPES[tokens[1]]
  ELSE STATE_TYPES[tokens[1]] \o ", " \o JoinLabels(Tail(tokens))

\* C11: for a ups.status made of known flags with one space between them,
\* the readable status is the labels of the flags in their order joined by
\* ", ", with no trailing comma or space; "OL CHRG" reads
\* "Online, Battery Charging".
C11_ReadableStatus ==
  translated # Undefined =>
    /\ \A tokens \in TokenSeqs :
         RawStatus.v = JoinTokens(tokens) =>
           /\ translated.values.f["status"].t = "str"
           /\ Concat(translated.values.f["status"].v) = JoinLabels(tokens)
    /\ RawStatus.v = <<"O", "L", " ", "C", "H", "R", "G">> =>
         Concat(translated.values.f["status"].v) = "Online, Battery Charging"

\* "OL CHRG" was translated to its two labels
C11_Witness ==
  /\ translated # Undefined
  /\ RawStatus.v = <<"O", "L", " ", "C", "H", "R", "G">>
  /\ translated.values.f["status"].v = <<"Online", ", ", "Battery Charging">>

\* the list setCapabilities writes from: the stored capabilities, if any,
\* and the capabilities of the status
EffectiveList(stored, status) ==
  (IF stored.t = "arr" THEN Range(stored.v) ELSE {}) \cup Range(status.capabilities)

\* C12: in a setCapabilities run whose first-run pass and value lookups do
\* not throw and in which the host rejects a write (the capability is not
\* on the device), every capability of the effective list is still
\* written, the ones on the device hold the value written, and the tick
\* leaves the device available.
C12_RejectedWriteIsolated ==
  [][(/\ Reconciles
      /\ ~(store.first_run = Bool(TRUE) /\ store.capabilities = Null)
      /\ \A c \in EffectiveList(store.capabilities, StatusOf[lastRun'.res.vars]) :
            Len(c) > 1 => Get(StatusOf[lastRun'.res.vars].values, c[1]).t = "obj"
      /\ \E c \in EffectiveList(store.capabilities, StatusOf[lastRun'.res.vars]) :
            c \notin liveCaps') =>
       /\ {w[1] : w \in Range(lastRun'.writes)} =
            EffectiveList(store.capabilities, StatusOf[lastRun'.res.vars])
       /\ \A w \in Range(lastRun'.writes) :
            w[1] \in liveCaps' => capValues'[w[1]] = w[2]
       /\ available'.state = "available"
    ]_vars

\* a run wrote measure_load after writes the host rejected, and the tick
\* left the device available
C12_Witness ==
  /\ lastRun.ran /\ ~lastRun.threw
  /\ ended.pc = "done" /\ ~ended.failed
  /\ available.state = "available"
  /\ <<"measure_load">> \in liveCaps
  /\ \E i, j \in 1..Len(lastRun.writes) :
       /\ i < j
       /\ lastRun.writes[i][1] \notin liveCaps
       /\ lastRun.writes[j] = <<(<<"measure_load">>), Num(7, 0)>>
       /\ capValues[<<"measure_load">>] = Num(7, 0)

IsFilled(value) ==
  /\ value.t \notin {"undef", "null"}
  /\ value.t = "str" => \E i \in 1..Len(value.v) : value.v[i] # " "

\* C14: a setCapabilities run attempts no write for a stored capability
\* whose value in the status is not filled, and leaves the value that
\* capability has on the device as it was.
C14_UnfilledNotWritten ==
  [][(Reconciles /\ store.capabilities.t = "arr") =>
       \A c \in Range(store.capabilities.v) :
         (Len(c) = 1 /\ ~IsFilled(Get(StatusOf[lastRun'.res.vars].values, c[1]))) =>
           /\ \A w \in Range(lastRun'.writes) : w[1] # c
           /\ (c \in liveCaps /\ c \in liveCaps') => capValues'[c] = capValues[c]
    ]_vars

\* C15: a tick that starts connects to the host of the settings at that
\* time: the client it calls start() on was made for settings.ip.
C15_ConnectsToCurrentHost ==
  [][Starts => nut.host = settings.ip]_vars

\* the names a translation may list, in the order the fields and
\* subfields of values are declared
DeclaredOrder ==
  <<(<<"measure_battery">>), (<<"measure_battery_runtime">>),
    (<<"measure_temperature">>), (<<"measure_voltage", "input">>),
    (<<"measure_voltage", "output">>), (<<"status">>), (<<"alarm_status">>),
    (<<"measure_load">>), (<<"measure_battery_voltage">>)>>

\* the value values holds under a name
ValueAt(values, c) ==
  IF Len(c) = 1 THEN Get(values, c[1]) ELSE Get(Get(values, c[1]), c[2])

ListedFilled(c) == IsFilled(ValueAt(translated.values, c))

\* C16: capabilities never holds name or id; it holds a scalar field
\* exactly when the value of the field is filled (a number, zero included,
\* and a boolean are filled, so alarm_status is always listed) and
\* field.subfield exactly for the filled subfields of measure_voltage, in
\* the order the fields and subfields are declared.
C16_CapabilitiesAreFilledFields ==
  translated # Undefined =>
    /\ translated.capabilities = SelectSeq(DeclaredOrder, ListedFilled)
    /\ <<"name">> \notin Range(translated.capabilities)
    /\ <<"id">> \notin Range(translated.capabilities)
    /\ <<"alarm_status">> \in Range(translated.capabilities)

\* a map with "0" for battery.charge and input.voltage and no
\* output.voltage was translated: the zeros are listed, the model name and
\* the missing subfield are not
C16_Witness ==
  /\ translated # Undefined
  /\ raw["battery.charge"] = Str(<<"0">>)
  /\ raw["output.voltage"] = Undefined
  /\ translated.values.f["name"] = Str(<<"0">>)
  /\ translated.values.f["measure_battery"] = Num(0, 0)
  /\ translated.capabilities =
       <<(<<"measure_battery">>), (<<"measure_temperature">>),
         (<<"measure_voltage", "input">>), (<<"alarm_status">>),
         (<<"measure_battery_voltage">>)>>

\* the numeric fields: the raw variable each is read from and its name
NumericFields ==
  {<<"battery.charge", (<<"measure_battery">>)>>,
   <<"battery.runtime", (<<"measure_battery_runtime">>)>>,
   <<"battery.temperature", (<<"measure_temperature">>)>>,
   <<"input.voltage", (<<"measure_voltage", "input">>)>>,
   <<"output.voltage", (<<"measure_voltage", "output">>)>>}

\* a string with no digit in it: no number can be parsed from it
NoDigit(value) ==
  /\ value.t = "str"
  /\ \A i \in 1..Len(value.v) :
       value.v[i] \notin {"0", "1", "2", "3", "4", "5", "6", "7", "8", "9"}

\* C17: a numeric field whose raw value is absent, blank or not parsable
\* as a number is null in values and is not listed in capabilities.
C17_MalformedNumericIsNull ==
  translated # Undefined =>
    \A field \in NumericFields :
      (AbsentOrBlank(raw[field[1]]) \/ NoDigit(raw[field[1]])) =>
        /\ ValueAt(translated.values, field[2]) = Null
        /\ field[2] \notin Range(translated.capabilities)

\* C18: a first_run that is false in the store stays false, and a
\* setCapabilities run removes capabilities from the device only in the
\* step that takes first_run from true to false: in at most one tick.
C18_PrunesOnce ==
  [][/\ store.first_run = Bool(FALSE) => store'.first_run = Bool(FALSE)
     /\ store'.first_run = Bool(TRUE) => store.first_run = Bool(TRUE)
     /\ liveCaps \ liveCaps' # {} =>
          /\ Reconciles
          /\ store.first_run = Bool(TRUE)
          /\ store'.first_run = Bool(FALSE)
     /\ (Reconciles /\ lastRun'.removes # {}) =>
          /\ store.first_run = Bool(TRUE)
          /\ store'.first_run = Bool(FALSE)
    ]_vars

\* the first run removed foo, and a later run added measure_load and
\* removed nothing
C18_Witness ==
  /\ store.first_run = Bool(FALSE)
  /\ <<"foo">> \notin liveCaps
  /\ lastRun.ran /\ ~lastRun.threw
  /\ lastRun.removes = {}
  /\ <<"measure_load">> \in lastRun.adds
  /\ <<"measure_load">> \in liveCaps

\* C19: after a setCapabilities run whose status holds a value for
\* measure_load (measure_battery_voltage), the device has that capability,
\* the first run included.
C19_DynamicCapabilityExposed ==
  [][Reconciles =>
       \A key \in {"measure_load", "measure_battery_voltage"} :
         ~LooseNull(Get(StatusOf[lastRun'.res.vars].values, key)) =>
           <<key>> \in liveCaps'
    ]_vars

\* C20: whatever first_run and the stored capability list are, a tick
\* whose connect, authentication and fetch succeeded leaves the device
\* available.
C20_SuccessfulTickAvailable ==
  [][(Reconciles /\ store \in InitialStores) => available'.state = "available"]_vars
====
